---- MODULE Spec2Model ----
(***************************************************************************)
(* Model of video-uploader/upload_youtube.py: one run of main(), from the  *)
(* command line to the process exit.  Strings are sequences of one-        *)
(* character strings.  The OAuth and API client libraries are the          *)
(* environment: each of their calls is a choice over its outcomes.         *)
(***************************************************************************)
EXTENDS FiniteSets, Integers, Sequences, TLC

VARIABLES pc, argv, args, videoExists, secretExists, tokenFile, tokenFile0,
          creds, youtube, title, tags, body, response, nchunks, video_id,
          out, err, ops, exitCode

vars == <<pc, argv, args, videoExists, secretExists, tokenFile, tokenFile0,
          creds, youtube, title, tags, body, response, nchunks, video_id,
          out, err, ops, exitCode>>

(* ---------------------------- bounds ----------------------------------- *)
MaxPathLen == 3
MaxTagLen == 3
MaxChunks == 2

(* ---------------------------- strings ---------------------------------- *)
Strs(A, n) == UNION {[1..k -> A] : k \in 0..n}

PathChars == {"a", ".", "/"}
TagChars == {"a", ",", " "}
Whitespace == {" "}

Running == -1

(* Python's None for an optional string, and a present value. *)
None == [given |-> FALSE, val |-> <<>>]
Some(s) == [given |-> TRUE, val |-> s]

(* Truthiness of an optional string: None and "" are both falsy. *)
Truthy(o) == o.given /\ o.val # <<>>

(* str.rfind, 1-based: 0 when the character does not occur. *)
RECURSIVE rfindFrom(_, _, _)
rfindFrom(s, c, i) ==
    IF i = 0 THEN 0
    ELSE IF s[i] = c THEN i
    ELSE rfindFrom(s, c, i - 1)

rfind(s, c) == rfindFrom(s, c, Len(s))

(* The path itself, no directory removed. *)
basenameMut(p) == p

(* os.path.basename: everything after the last separator. *)
basename(p) == SubSeq(p, rfind(p, "/") + 1, Len(p))

(* genericpath._splitext's scan: the root ends at the last dot provided   *)
(* some character between the separator and that dot is not a dot.        *)
RECURSIVE splitextScan(_, _, _)
splitextScan(p, filenameIndex, dotIndex) ==
    IF filenameIndex >= dotIndex THEN p
    ELSE IF p[filenameIndex] # "." THEN SubSeq(p, 1, dotIndex - 1)
    ELSE splitextScan(p, filenameIndex + 1, dotIndex)

(* os.path.splitext(p)[0] *)
splitextRoot(p) ==
    LET sepIndex == rfind(p, "/")
        dotIndex == rfind(p, ".")
    IN IF dotIndex > sepIndex
       THEN splitextScan(p, sepIndex + 1, dotIndex)
       ELSE p

(* main, line 117: args.title or splitext(basename(args.video))[0] *)
deriveTitle(a) ==
    IF Truthy(a.title) THEN a.title.val
    ELSE splitextRoot(basename(a.video))

(* str.strip *)
RECURSIVE lstrip(_)
lstrip(t) ==
    IF t = <<>> THEN <<>>
    ELSE IF Head(t) \in Whitespace THEN lstrip(Tail(t))
    ELSE t

RECURSIVE rstrip(_)
rstrip(t) ==
    IF t = <<>> THEN <<>>
    ELSE IF t[Len(t)] \in Whitespace THEN rstrip(SubSeq(t, 1, Len(t) - 1))
    ELSE t

strip(t) == rstrip(lstrip(t))

(* str.split(","): the pieces between commas; "" gives one empty piece. *)
RECURSIVE splitAcc(_, _, _)
splitAcc(s, cur, acc) ==
    IF s = <<>> THEN Append(acc, cur)
    ELSE IF Head(s) = "," THEN splitAcc(Tail(s), <<>>, Append(acc, cur))
    ELSE splitAcc(Tail(s), Append(cur, Head(s)), acc)

split(s) == splitAcc(s, <<>>, <<>>)

(* Filters on the piece before it is stripped. *)
RECURSIVE stripNonEmptyMut(_)
stripNonEmptyMut(ps) ==
    IF ps = <<>> THEN <<>>
    ELSE IF Head(ps) # <<>>
         THEN <<strip(Head(ps))>> \o stripNonEmptyMut(Tail(ps))
         ELSE stripNonEmptyMut(Tail(ps))

(* the list comprehension of line 118 *)
RECURSIVE stripNonEmpty(_)
stripNonEmpty(ps) ==
    IF ps = <<>> THEN <<>>
    ELSE IF strip(Head(ps)) # <<>>
         THEN <<strip(Head(ps))>> \o stripNonEmpty(Tail(ps))
         ELSE stripNonEmpty(Tail(ps))

(* main, line 118 *)
deriveTags(s) == IF s # <<>> THEN stripNonEmpty(split(s)) ELSE <<>>

(* upload_video, lines 62-70: tags=None and tags=[] both leave the field  *)
(* out of the snippet.                                                    *)
makeBody(t, d, tg, p) ==
    [title |-> t, description |-> d, privacyStatus |-> p,
     hasTags |-> (tg # <<>>), tags |-> tg]

NoBody == [title |-> <<>>, description |-> <<>>, privacyStatus |-> <<>>,
           hasTags |-> FALSE, tags |-> <<>>]

(* ---------------------------- credentials ------------------------------ *)
(* token = 0 is an absent access token. *)
NoCreds == [some |-> FALSE, token |-> 0, refresh_token |-> FALSE,
            expiry |-> "none"]

(* Credentials.expired / Credentials.valid of google-auth. *)
expired(c) == c.expiry = "past"
valid(c) == c.token # 0 /\ ~expired(c)

NoFile == [exists |-> FALSE, token |-> 0, refresh_token |-> FALSE,
           expiry |-> "none"]

(* Credentials.to_json written to token.json, line 50 *)
to_json(c) ==
    [exists |-> TRUE, token |-> c.token, refresh_token |-> c.refresh_token,
     expiry |-> c.expiry]

(* Credentials.from_authorized_user_file, line 37 *)
from_authorized_user_file(f) ==
    [some |-> TRUE, token |-> f.token, refresh_token |-> f.refresh_token,
     expiry |-> f.expiry]

StoredToken == 1
RefreshedToken == 2
ConsentToken == 3

TokenFiles ==
    {NoFile} \cup
    [exists : {TRUE}, token : {0, StoredToken}, refresh_token : BOOLEAN,
     expiry : {"none", "past", "future"}]

(* ---------------------------- upload ----------------------------------- *)
Ids == {<<"x">>, <<"y", "z">>}

(* A finished payload: the keys it carries and the value under "id". *)
NoResponse == [some |-> FALSE, keys |-> {}, id |-> <<>>]
Payloads ==
    {[some |-> TRUE, keys |-> {}, id |-> <<>>],
     [some |-> TRUE, keys |-> {"kind"}, id |-> <<>>]}
    \cup [some : {TRUE}, keys : {{"id"}, {"id", "kind"}}, id : Ids]

(* Python truthiness of response: None and {} are falsy. *)
responseTruthy(r) == r.some /\ r.keys # {}

ShortLink == <<"https://youtu.be/">>
watchUrl(id) == ShortLink \o id

Emit(kind, val) == [kind |-> kind, val |-> val]

(* ---------------------------- command line ----------------------------- *)
Choices == {"public", "unlisted", "private"}

(* argparse's defaults, lines 99-111 *)
parse_args(v) ==
    [video |-> v.video.val,
     title |-> v.title,
     description |-> IF v.description.given THEN v.description.val ELSE <<>>,
     tags |-> IF v.tags.given THEN v.tags.val ELSE <<>>,
     privacy |-> IF v.privacy.given THEN v.privacy.val ELSE <<"private">>]

NoArgs == [video |-> <<>>, title |-> None, description |-> <<>>,
           tags |-> <<>>, privacy |-> <<>>]

BadChoice(v) == v.privacy.given /\ ~(\E c \in Choices : v.privacy.val = <<c>>)

Rejected(v) == ~v.video.given \/ BadChoice(v)

Opt(S) == {None} \cup {Some(s) : s \in S}

(* A full sweep of the environment over a few command lines. *)
EnvArgv ==
    [video : Opt({<<"a", ".", "a">>, <<"/", "a">>}),
     title : Opt({<<>>, <<"T">>}),
     description : Opt({<<"d">>}),
     tags : Opt({<<"a", ",", " ">>}),
     privacy : Opt({<<"public">>, <<"weird">>}),
     help : BOOLEAN]

(* Every path up to MaxPathLen, with and without --title. *)
PathArgv ==
    [video : {Some(p) : p \in Strs(PathChars, MaxPathLen)},
     title : Opt({<<>>, <<"T">>}),
     description : {None},
     tags : {None},
     privacy : {None},
     help : {FALSE}]

(* Every --tags string up to MaxTagLen. *)
TagArgv ==
    [video : {Some(<<"a", ".", "a">>)},
     title : {None},
     description : {None},
     tags : Opt(Strs(TagChars, MaxTagLen)),
     privacy : Opt({<<"unlisted">>}),
     help : {FALSE}]

InitRest ==
    /\ pc = "parse"
    /\ args = NoArgs
    /\ tokenFile0 = tokenFile
    /\ creds = NoCreds
    /\ youtube = NoCreds
    /\ title = <<>>
    /\ tags = <<>>
    /\ body = NoBody
    /\ response = NoResponse
    /\ nchunks = 0
    /\ video_id = <<>>
    /\ out = <<>>
    /\ err = "none"
    /\ ops = <<>>
    /\ exitCode = Running

Init ==
    /\ \/ /\ argv \in EnvArgv
          /\ videoExists \in BOOLEAN
          /\ secretExists \in BOOLEAN
          /\ tokenFile \in TokenFiles
       \/ /\ argv \in PathArgv \cup TagArgv
          /\ videoExists \in BOOLEAN
          /\ secretExists = TRUE
          /\ tokenFile \in {NoFile, to_json([some |-> TRUE, token |-> StoredToken,
                                             refresh_token |-> TRUE,
                                             expiry |-> "future"])}
    /\ InitRest

(* ---------------------------- exits ------------------------------------ *)
(* sys.exit(code), sys.exit(message) (status 1, message on stderr), and   *)
(* an exception nobody catches (traceback on stderr, status 1).           *)
Exit(code, diag) ==
    /\ pc' = "done"
    /\ exitCode' = code
    /\ err' = diag

(* ---------------------------- main ------------------------------------- *)
(* line 113: -h prints the help and exits 0; a rejected command line      *)
(* prints the usage and exits 2.  Which of the two argparse meets first   *)
(* depends on the order of the words on the command line.                 *)
ParseHelp ==
    /\ pc = "parse"
    /\ argv.help
    /\ out' = Append(out, Emit("help", <<>>))
    /\ Exit(0, "none")
    /\ UNCHANGED <<argv, args, videoExists, secretExists, tokenFile,
                   tokenFile0, creds, youtube, title, tags, body, response,
                   nchunks, video_id, ops>>

ParseError ==
    /\ pc = "parse"
    /\ Rejected(argv)
    /\ ~argv.help \/ BadChoice(argv)
    /\ Exit(2, "usage")
    /\ UNCHANGED <<argv, args, videoExists, secretExists, tokenFile,
                   tokenFile0, creds, youtube, title, tags, body, response,
                   nchunks, video_id, out, ops>>

ParseOk ==
    /\ pc = "parse"
    /\ ~argv.help
    /\ ~Rejected(argv)
    /\ args' = parse_args(argv)
    /\ pc' = "check_file"
    /\ UNCHANGED <<argv, videoExists, secretExists, tokenFile, tokenFile0,
                   creds, youtube, title, tags, body, response, nchunks,
                   video_id, out, err, ops, exitCode>>

(* The message without the exit: the run goes on. *)
FileNotFoundMut ==
    /\ pc = "check_file"
    /\ ~videoExists
    /\ title' = deriveTitle(args)
    /\ tags' = deriveTags(args.tags)
    /\ pc' = "load_token"
    /\ UNCHANGED <<argv, args, videoExists, secretExists, tokenFile,
                   tokenFile0, creds, youtube, body, response, nchunks,
                   video_id, out, err, ops, exitCode>>

(* lines 114-115 *)
FileNotFound ==
    /\ pc = "check_file"
    /\ ~videoExists
    /\ Exit(1, "file_not_found")
    /\ UNCHANGED <<argv, args, videoExists, secretExists, tokenFile,
                   tokenFile0, creds, youtube, title, tags, body, response,
                   nchunks, video_id, out, ops>>

(* lines 114-118 *)
DeriveArgs ==
    /\ pc = "check_file"
    /\ videoExists
    /\ title' = deriveTitle(args)
    /\ tags' = deriveTags(args.tags)
    /\ pc' = "load_token"
    /\ UNCHANGED <<argv, args, videoExists, secretExists, tokenFile,
                   tokenFile0, creds, youtube, body, response, nchunks,
                   video_id, out, err, ops, exitCode>>

(* ---------------------------- get_youtube_client ----------------------- *)
(* lines 35-37 *)
LoadToken ==
    /\ pc = "load_token"
    /\ IF tokenFile.exists
       THEN /\ creds' = from_authorized_user_file(tokenFile)
            /\ ops' = Append(ops, "read_token")
       ELSE /\ creds' = NoCreds
            /\ UNCHANGED ops
    /\ pc' = "check_creds"
    /\ UNCHANGED <<argv, args, videoExists, secretExists, tokenFile,
                   tokenFile0, youtube, title, tags, body, response, nchunks,
                   video_id, out, err, exitCode>>

(* The validity test inverted. *)
needsAuthMut(c) == ~c.some \/ valid(c)

(* line 38 *)
needsAuth(c) == ~c.some \/ ~valid(c)

(* line 39; a refresh token is a non-empty string or None *)
refreshable(c) == c.some /\ expired(c) /\ c.refresh_token

(* The token file rewritten on every run. *)
CredsValidMut ==
    /\ pc = "check_creds"
    /\ ~needsAuth(creds)
    /\ pc' = "write_token"
    /\ UNCHANGED <<argv, args, videoExists, secretExists, tokenFile,
                   tokenFile0, creds, youtube, title, tags, body, response,
                   nchunks, video_id, out, err, ops, exitCode>>

(* line 38 false: straight to line 51 *)
CredsValid ==
    /\ pc = "check_creds"
    /\ ~needsAuth(creds)
    /\ pc' = "build"
    /\ UNCHANGED <<argv, args, videoExists, secretExists, tokenFile,
                   tokenFile0, creds, youtube, title, tags, body, response,
                   nchunks, video_id, out, err, ops, exitCode>>

(* The write placed in the consent branch only. *)
RefreshMut ==
    /\ pc = "check_creds"
    /\ needsAuth(creds)
    /\ refreshable(creds)
    /\ creds' = [creds EXCEPT !.token = RefreshedToken, !.expiry = "future"]
    /\ ops' = Append(ops, "refresh")
    /\ pc' = "build"
    /\ UNCHANGED <<argv, args, videoExists, secretExists, tokenFile,
                   tokenFile0, youtube, title, tags, body, response, nchunks,
                   video_id, out, err, exitCode>>

(* line 40, the call returns *)
Refresh ==
    /\ pc = "check_creds"
    /\ needsAuth(creds)
    /\ refreshable(creds)
    /\ creds' = [creds EXCEPT !.token = RefreshedToken, !.expiry = "future"]
    /\ ops' = Append(ops, "refresh")
    /\ pc' = "write_token"
    /\ UNCHANGED <<argv, args, videoExists, secretExists, tokenFile,
                   tokenFile0, youtube, title, tags, body, response, nchunks,
                   video_id, out, err, exitCode>>

(* line 40, the call raises; nothing catches it *)
RefreshFails ==
    /\ pc = "check_creds"
    /\ needsAuth(creds)
    /\ refreshable(creds)
    /\ ops' = Append(ops, "refresh")
    /\ Exit(1, "traceback")
    /\ UNCHANGED <<argv, args, videoExists, secretExists, tokenFile,
                   tokenFile0, creds, youtube, title, tags, body, response,
                   nchunks, video_id, out>>

(* lines 42-45 *)
MissingSecret ==
    /\ pc = "check_creds"
    /\ needsAuth(creds)
    /\ ~refreshable(creds)
    /\ ~secretExists
    /\ Exit(1, "missing_client_secret")
    /\ UNCHANGED <<argv, args, videoExists, secretExists, tokenFile,
                   tokenFile0, creds, youtube, title, tags, body, response,
                   nchunks, video_id, out, ops>>

(* lines 46-48, the user consents *)
ConsentFlow ==
    /\ pc = "check_creds"
    /\ needsAuth(creds)
    /\ ~refreshable(creds)
    /\ secretExists
    /\ creds' = [some |-> TRUE, token |-> ConsentToken,
                 refresh_token |-> TRUE, expiry |-> "future"]
    /\ ops' = Append(ops, "consent")
    /\ pc' = "write_token"
    /\ UNCHANGED <<argv, args, videoExists, secretExists, tokenFile,
                   tokenFile0, youtube, title, tags, body, response, nchunks,
                   video_id, out, err, exitCode>>

(* lines 46-48, the flow raises; nothing catches it *)
ConsentFails ==
    /\ pc = "check_creds"
    /\ needsAuth(creds)
    /\ ~refreshable(creds)
    /\ secretExists
    /\ ops' = Append(ops, "consent")
    /\ Exit(1, "traceback")
    /\ UNCHANGED <<argv, args, videoExists, secretExists, tokenFile,
                   tokenFile0, creds, youtube, title, tags, body, response,
                   nchunks, video_id, out>>

(* The file opened for writing and nothing written back. *)
WriteTokenMut ==
    /\ pc = "write_token"
    /\ ops' = Append(ops, "write_token")
    /\ pc' = "build"
    /\ UNCHANGED <<argv, args, videoExists, secretExists, tokenFile,
                   tokenFile0, creds, youtube, title, tags, body, response,
                   nchunks, video_id, out, err, exitCode>>

(* lines 49-50 *)
WriteToken ==
    /\ pc = "write_token"
    /\ tokenFile' = to_json(creds)
    /\ ops' = Append(ops, "write_token")
    /\ pc' = "build"
    /\ UNCHANGED <<argv, args, videoExists, secretExists, tokenFile0, creds,
                   youtube, title, tags, body, response, nchunks, video_id,
                   out, err, exitCode>>

(* line 51 *)
BuildClient ==
    /\ pc = "build"
    /\ youtube' = creds
    /\ ops' = Append(ops, "build")
    /\ pc' = "upload"
    /\ UNCHANGED <<argv, args, videoExists, secretExists, tokenFile,
                   tokenFile0, creds, title, tags, body, response, nchunks,
                   video_id, out, err, exitCode>>

(* ---------------------------- upload_video ----------------------------- *)
(* lines 62-76; main passes tags or None, line 126 *)
StartUpload ==
    /\ pc = "upload"
    /\ body' = makeBody(title, args.description, tags, args.privacy)
    /\ ops' = Append(ops, "insert")
    /\ out' = Append(out, Emit("starting", <<>>))
    /\ response' = NoResponse
    /\ pc' = "next_chunk"
    /\ UNCHANGED <<argv, args, videoExists, secretExists, tokenFile,
                   tokenFile0, creds, youtube, title, tags, nchunks, video_id,
                   err, exitCode>>

(* lines 78-81: (status, None), one progress line, the loop goes on *)
ChunkProgress ==
    /\ pc = "next_chunk"
    /\ ~response.some
    /\ nchunks < MaxChunks
    /\ nchunks' = nchunks + 1
    /\ ops' = Append(ops, "next_chunk")
    /\ out' = Append(out, Emit("uploaded", <<>>))
    /\ UNCHANGED <<pc, argv, args, videoExists, secretExists, tokenFile,
                   tokenFile0, creds, youtube, title, tags, body, response,
                   video_id, err, exitCode>>

(* lines 78-80: (None, payload); response is no longer None, the loop ends *)
ChunkFinished ==
    /\ pc = "next_chunk"
    /\ ~response.some
    /\ \E r \in Payloads : response' = r
    /\ ops' = Append(ops, "next_chunk")
    /\ pc' = "result"
    /\ UNCHANGED <<argv, args, videoExists, secretExists, tokenFile,
                   tokenFile0, creds, youtube, title, tags, body, nchunks,
                   video_id, out, err, exitCode>>

(* The handler inside the loop: the next chunk is requested again. *)
ChunkHttpErrorMut ==
    /\ pc = "next_chunk"
    /\ ~response.some
    /\ ops' = Append(ops, "next_chunk")
    /\ out' = Append(out, Emit("http_error", <<>>))
    /\ UNCHANGED <<pc, argv, args, videoExists, secretExists, tokenFile,
                   tokenFile0, creds, youtube, title, tags, body, response,
                   nchunks, video_id, err, exitCode>>

(* lines 79, 82-83: next_chunk raises HttpError, caught outside the loop *)
ChunkHttpError ==
    /\ pc = "next_chunk"
    /\ ~response.some
    /\ ops' = Append(ops, "next_chunk")
    /\ out' = Append(out, Emit("http_error", <<>>))
    /\ pc' = "result"
    /\ UNCHANGED <<argv, args, videoExists, secretExists, tokenFile,
                   tokenFile0, creds, youtube, title, tags, body, response,
                   nchunks, video_id, err, exitCode>>

(* The test for the "id" key left out. *)
succeededMut(r) == responseTruthy(r)

(* line 85 *)
succeeded(r) == responseTruthy(r) /\ "id" \in r.keys

(* lines 85-90, then main returns: exit status 0 *)
UploadComplete ==
    /\ pc = "result"
    /\ succeeded(response)
    /\ video_id' = response.id
    /\ out' = out \o <<Emit("complete", <<>>),
                        Emit("video_id", response.id),
                        Emit("watch_url", watchUrl(response.id))>>
    /\ Exit(0, "none")
    /\ UNCHANGED <<argv, args, videoExists, secretExists, tokenFile,
                   tokenFile0, creds, youtube, title, tags, body, response,
                   nchunks, ops>>

(* The failure line without sys.exit(1): main returns, exit status 0. *)
UploadFailedMut ==
    /\ pc = "result"
    /\ ~succeeded(response)
    /\ out' = Append(out, Emit("failed", <<>>))
    /\ Exit(0, "none")
    /\ UNCHANGED <<argv, args, videoExists, secretExists, tokenFile,
                   tokenFile0, creds, youtube, title, tags, body, response,
                   nchunks, video_id, ops>>

(* lines 91-93 *)
UploadFailed ==
    /\ pc = "result"
    /\ ~succeeded(response)
    /\ out' = Append(out, Emit("failed", <<>>))
    /\ Exit(1, "none")
    /\ UNCHANGED <<argv, args, videoExists, secretExists, tokenFile,
                   tokenFile0, creds, youtube, title, tags, body, response,
                   nchunks, video_id, ops>>

Next ==
    \/ ParseHelp
    \/ ParseError
    \/ ParseOk
    \/ FileNotFound
    \/ DeriveArgs
    \/ LoadToken
    \/ CredsValid
    \/ Refresh
    \/ RefreshFails
    \/ MissingSecret
    \/ ConsentFlow
    \/ ConsentFails
    \/ WriteToken
    \/ BuildClient
    \/ StartUpload
    \/ ChunkProgress
    \/ ChunkFinished
    \/ ChunkHttpError
    \/ UploadComplete
    \/ UploadFailed

Spec == Init /\ [][Next]_vars

(* ---------------------------- observations ----------------------------- *)
Has(s, x) == \E i \in DOMAIN s : s[i] = x
Count(s, x) == Cardinality({i \in DOMAIN s : s[i] = x})
First(s, x) == CHOOSE i \in DOMAIN s : s[i] = x /\ \A j \in 1..(i - 1) : s[j] # x
Emitted(kind) == \E i \in DOMAIN out : out[i].kind = kind
LastKind == IF out = <<>> THEN "nothing" ELSE out[Len(out)].kind

Done == pc = "done"

(* The three closing lines of a successful upload. *)
SuccessSummary ==
    /\ Len(out) >= 3
    /\ out[Len(out) - 2].kind = "complete"
    /\ out[Len(out) - 1].kind = "video_id"
    /\ out[Len(out)].kind = "watch_url"

(* A message of the script itself: sys.exit(message) or the failure line. *)
Diagnostic ==
    \/ err \in {"file_not_found", "missing_client_secret"}
    \/ err = "none" /\ LastKind = "failed"

UncaughtAuthError == err = "traceback"

(* ---------------------------- C1 --------------------------------------- *)
(* C1 as stated: every run that terminates without an uncaught            *)
(* authorization error ends with the success summary and exit code 0, or   *)
(* with a diagnostic and exit code 1, a rejected command line included.   *)
C1_AsStated ==
    (Done /\ ~UncaughtAuthError) =>
        \/ exitCode = 0 /\ SuccessSummary
        \/ exitCode = 1 /\ Diagnostic

(* C1 amended: a run whose command line the parser accepts ends with the   *)
(* success summary and exit code 0 or with a diagnostic and exit code 1;   *)
(* a command line the parser rejects ends with the usage message and exit  *)
(* code 2, and -h ends with the help text and exit code 0, both before     *)
(* anything else is done.                                                  *)
C1_ExitCodes ==
    (Done /\ ~UncaughtAuthError) =>
        \/ exitCode = 0 /\ SuccessSummary /\ ~Rejected(argv) /\ ~argv.help
        \/ exitCode = 1 /\ Diagnostic /\ ~Rejected(argv) /\ ~argv.help
        \/ exitCode = 2 /\ err = "usage" /\ Rejected(argv)
                        /\ out = <<>> /\ ops = <<>>
        \/ exitCode = 0 /\ argv.help /\ LastKind = "help"
                        /\ Len(out) = 1 /\ ops = <<>>

C1_Witness == Done /\ exitCode = 2 /\ err = "usage" /\ BadChoice(argv)

(* ---------------------------- C2 --------------------------------------- *)
NoOperation == ops = <<>> /\ tokenFile = tokenFile0

(* C2 as stated: when the video path on the command line does not exist,   *)
(* no credential or network operation happens and the exit code is 1.     *)
C2_AsStated ==
    (argv.video.given /\ ~videoExists) =>
        /\ NoOperation
        /\ Done => exitCode = 1

(* C2 amended: when the parser accepts the command line and the video path *)
(* does not exist, no credential or network operation happens and the exit *)
(* code is 1 (a missing path never allows an operation, accepted or not).  *)
C2_MissingFile ==
    (argv.video.given /\ ~videoExists) =>
        /\ NoOperation
        /\ (Done /\ ~Rejected(argv) /\ ~argv.help) =>
               exitCode = 1 /\ err = "file_not_found"

C2_Witness ==
    Done /\ argv.video.given /\ ~videoExists /\ err = "file_not_found"
         /\ tokenFile.exists

(* ---------------------------- C3 --------------------------------------- *)
StoredValid == tokenFile0.exists /\ tokenFile0.token # 0 /\ tokenFile0.expiry # "past"

(* C3: with a token file whose credentials are valid and not expired, the  *)
(* consent flow is never started, with or without a client-secret file.   *)
C3_NoConsent ==
    StoredValid =>
        /\ ~Has(ops, "consent")
        /\ err # "missing_client_secret"

C3_Witness == StoredValid /\ ~secretExists /\ Has(ops, "build")

(* ---------------------------- C4 --------------------------------------- *)
StoredRefreshable ==
    tokenFile0.exists /\ tokenFile0.expiry = "past" /\ tokenFile0.refresh_token

Reached(places) == pc \in places

AfterCredCheck == {"write_token", "build", "upload", "next_chunk", "result"}

Before(a, b) == Has(ops, a) /\ Has(ops, b) /\ First(ops, a) < First(ops, b)

(* C4: an expired stored credential with a refresh token is refreshed,     *)
(* without consent flow and without the client-secret file, and when the   *)
(* refresh succeeds the refreshed credential is in the token file before   *)
(* the API client is built and before the upload starts.                  *)
C4_RefreshThenPersist ==
    StoredRefreshable =>
        /\ ~Has(ops, "consent")
        /\ err # "missing_client_secret"
        /\ (Reached(AfterCredCheck) \/ Has(ops, "build") \/ err = "traceback")
               => Count(ops, "refresh") = 1
        /\ Has(ops, "build") =>
               /\ Before("refresh", "write_token")
               /\ Before("write_token", "build")
               /\ tokenFile = to_json(creds)
               /\ tokenFile.token = RefreshedToken
        /\ Has(ops, "insert") => Before("build", "insert")

C4_Witness ==
    StoredRefreshable /\ ~secretExists /\ Has(ops, "insert")
        /\ tokenFile.token = RefreshedToken

(* ---------------------------- C5 --------------------------------------- *)
(* C5: after next_chunk raises an HTTP error, at any chunk, no further     *)
(* chunk is requested, no identifier and no watch URL is emitted, and the  *)
(* exit code is 1.                                                         *)
C5_HttpError ==
    Emitted("http_error") =>
        /\ pc \in {"result", "done"}
        /\ Count(ops, "next_chunk") = nchunks + 1
        /\ ops[Len(ops)] = "next_chunk"
        /\ ~Emitted("video_id") /\ ~Emitted("watch_url")
        /\ ~response.some
        /\ Done => exitCode = 1 /\ LastKind = "failed"

C5_Witness == Done /\ Emitted("http_error") /\ nchunks >= 1 /\ exitCode = 1

(* ---------------------------- C6 --------------------------------------- *)
HasIdentifier == response.some /\ "id" \in response.keys

(* C6: upload_video emits the identifier and the watch URL (the short-link *)
(* domain followed by the identifier) and returns the identifier exactly   *)
(* when the loop ended with a payload carrying an identifier; otherwise it *)
(* emits the failure line and exits with code 1.                          *)
C6_SuccessIff ==
    /\ (Emitted("video_id") \/ Emitted("watch_url") \/ video_id # <<>>) =>
           /\ HasIdentifier
           /\ SuccessSummary
           /\ out[Len(out) - 1].val = response.id
           /\ out[Len(out)].val = <<"https://youtu.be/">> \o response.id
           /\ video_id = response.id
           /\ exitCode = 0
    /\ (Done /\ Has(ops, "insert")) =>
           IF HasIdentifier
           THEN Emitted("video_id") /\ Emitted("watch_url")
           ELSE LastKind = "failed" /\ exitCode = 1

C6_Witness ==
    Done /\ Emitted("watch_url") /\ response.keys = {"id", "kind"}
         /\ response.id = <<"y", "z">>

C6_WitnessFailure == Done /\ response.keys = {"kind"} /\ LastKind = "failed"

(* ---------------------------- C7 --------------------------------------- *)
(* The base name: what follows the last separator of the path. *)
BaseNameOf(p) ==
    LET k == CHOOSE k \in 0..Len(p) :
                 /\ \A i \in (k + 1)..Len(p) : p[i] # "/"
                 /\ k = 0 \/ p[k] = "/"
    IN SubSeq(p, k + 1, Len(p))

(* The name without its extension: the extension starts at the last dot,   *)
(* and a name made of leading dots only up to there has none.             *)
WithoutExtension(b) ==
    LET dots == {k \in DOMAIN b :
                     /\ b[k] = "."
                     /\ \A i \in (k + 1)..Len(b) : b[i] # "."
                     /\ \E i \in 1..(k - 1) : b[i] # "."}
    IN IF dots = {} THEN b ELSE SubSeq(b, 1, (CHOOSE k \in dots : TRUE) - 1)

DefaultTitle == WithoutExtension(BaseNameOf(argv.video.val))

(* C7 as stated: the title of the request is the base name without its     *)
(* extension when --title is absent, and the --title value whenever one is *)
(* given, the empty string included.                                       *)
C7_AsStated ==
    Has(ops, "insert") =>
        body.title = IF argv.title.given THEN argv.title.val ELSE DefaultTitle

(* C7 amended: the title of the request is the base name without its       *)
(* extension when --title is absent or is the empty string, and the        *)
(* --title value whenever a non-empty one is given.                        *)
C7_Title ==
    Has(ops, "insert") =>
        body.title = IF argv.title.given /\ argv.title.val # <<>>
                     THEN argv.title.val
                     ELSE DefaultTitle

C7_Witness ==
    /\ Has(ops, "insert")
    /\ ~argv.title.given
    /\ argv.video.val = <<"/", "a", ".">>
    /\ body.title = <<"a">>

C7_WitnessOverride ==
    Has(ops, "insert") /\ argv.title = Some(<<"T">>) /\ body.title = <<"T">>

(* ---------------------------- C8 --------------------------------------- *)
TagString == IF argv.tags.given THEN argv.tags.val ELSE <<>>

(* The pieces of s between commas, by the position before each piece. *)
PieceStarts(s) == {0} \cup {i \in DOMAIN s : s[i] = ","}
PieceEnd(s, b) ==
    LET later == {c \in DOMAIN s : s[c] = "," /\ c > b} \cup {Len(s) + 1}
    IN CHOOSE e \in later : \A c \in later : e <= c
Inked(s, b) == {i \in (b + 1)..(PieceEnd(s, b) - 1) : s[i] # " "}
Trimmed(s, b) ==
    LET ink == Inked(s, b)
        lo == CHOOSE i \in ink : \A j \in ink : i <= j
        hi == CHOOSE i \in ink : \A j \in ink : j <= i
    IN SubSeq(s, lo, hi)

(* The trimmed non-empty pieces, in their order in s. *)
ExpectedTags(s) ==
    LET kept == {b \in PieceStarts(s) : Inked(s, b) # {}}
        nth(k) == CHOOSE b \in kept : Cardinality({x \in kept : x < b}) = k - 1
    IN [k \in 1..Cardinality(kept) |-> Trimmed(s, nth(k))]

OnlyCommasAndSpaces(s) == \A i \in DOMAIN s : s[i] \in {",", " "}

C8_WitnessOmitted ==
    Has(ops, "insert") /\ argv.tags = Some(<<",", " ", ",">>) /\ ~body.hasTags

(* ---------------------------- C9 --------------------------------------- *)
(* C9: once the API client is built, and so whenever the upload request    *)
(* is started, the credentials it holds are valid and the token file       *)
(* exists and holds exactly those credentials, whatever the token file     *)
(* held at the start; every other end of the credential step is an exit.   *)
C9_ValidAndPersisted ==
    /\ Has(ops, "build") =>
           /\ youtube.some /\ youtube.token # 0 /\ youtube.expiry # "past"
           /\ tokenFile.exists
           /\ tokenFile.token = youtube.token
           /\ tokenFile.refresh_token = youtube.refresh_token
           /\ tokenFile.expiry = youtube.expiry
    /\ Has(ops, "insert") => Has(ops, "build")
    /\ (Done /\ ~Has(ops, "build")) => exitCode # 0 \/ argv.help

C9_Witness ==
    /\ Has(ops, "insert")
    /\ tokenFile0.exists /\ tokenFile0.expiry = "past" /\ ~tokenFile0.refresh_token
    /\ tokenFile.token = ConsentToken

C9_WitnessAbsent == Has(ops, "insert") /\ ~tokenFile0.exists

(* ---------------------------- C10 -------------------------------------- *)
Obtained == creds.token \in {RefreshedToken, ConsentToken}

(* C10: the token file is written exactly when a refresh or a consent flow *)
(* succeeded in the run, once, with the resulting credentials; on every    *)
(* other path, and in every later step, its contents do not change.        *)
C10_TokenWrites ==
    /\ Count(ops, "write_token") <= 1
    /\ pc # "write_token" => (Has(ops, "write_token") <=> Obtained)
    /\ pc = "write_token" => Obtained /\ ~Has(ops, "write_token")
    /\ Obtained <=> (\/ Has(ops, "refresh") /\ err # "traceback"
                     \/ Has(ops, "consent") /\ err # "traceback")
    /\ Has(ops, "write_token") =>
           tokenFile = [exists |-> TRUE, token |-> creds.token,
                        refresh_token |-> creds.refresh_token,
                        expiry |-> creds.expiry]
    /\ ~Has(ops, "write_token") => tokenFile = tokenFile0

C10_Witness ==
    /\ Done /\ exitCode = 1 /\ LastKind = "failed"
    /\ Has(ops, "refresh") /\ Count(ops, "write_token") = 1
    /\ tokenFile # tokenFile0

C10_WitnessUnchanged ==
    Done /\ err = "traceback" /\ Has(ops, "refresh") /\ tokenFile = tokenFile0
====
